---- MODULE Spec2Model ----
(***************************************************************************)
(* Model of code/01-sentinel-no2-final.py: the daily Sentinel-5P NO2       *)
(* pipeline.  main() partitions the extent into tiles, fetches each tile,  *)
(* merges the tile files, reconciles the merged axes, and writes the       *)
(* original, linear and cubic variants.                                    *)
(*                                                                         *)
(* Coordinates are integers in units of 1e-6 degree, so that rounding to   *)
(* 5 decimals (np.round(.., 5)) is rounding to a multiple of Quantum.      *)
(* A dataset is a record [hasNO2, x, y, v] with v[r][c] the value at       *)
(* (y[r], x[c]); NaN marks a hole.                                         *)
(***************************************************************************)
EXTENDS Integers, Sequences, FiniteSets, TLC

VARIABLES
    pc,          \* position of main()
    outcome,     \* how main() ended
    stages,      \* the stages main() has entered, in order (history)
    grid_boxes,  \* main: grid_boxes, the dict returned by generate_grid_boxes
    next_box,    \* main: position of the for loop over grid_boxes.items()
    box_files,   \* main: box_files
    fs,          \* the nc/ directory: file name -> content
    written,     \* file names created by this run, in order (history)
    fetch_log,   \* the process_box calls made so far: <<name, ok>> (history)
    ds,          \* main: ds, the canonical grid
    attempted,   \* fill methods for which griddata has been called (history)
    arg,         \* function checks: the arguments of the function applied
    res          \* function checks: its result

vars == <<pc, outcome, stages, grid_boxes, next_box, box_files, fs, written,
          fetch_log, ds, attempted, arg, res>>

pipeVars == <<pc, outcome, stages, grid_boxes, next_box, box_files, fs,
              written, fetch_log, ds, attempted>>
funVars == <<arg, res>>

(***************************************************************************)
(* Bounds of the model.                                                    *)
(***************************************************************************)
\* number of tile columns the pipeline is run with (the program uses 5)
XDiv == 2
\* largest division count tried on generate_grid_boxes
MaxDiv == 3
\* longest merged axis handed to the reconciliation on its own
MaxAxisLen == 3
\* largest offset, in units of 1e-6 degree, of a tile's edge coordinate from
\* the seam it shares with its neighbour
MaxNoise == 9

(***************************************************************************)
(* Program constants.                                                      *)
(***************************************************************************)
\* main: divisions["y"]
YDiv == 2
\* the missing-value marker (numpy NaN); every sample value is positive
NaN == -1
\* np.round(.., 5) in units of 1e-6 degree
Quantum == 10

\* main: the extent handed to generate_grid_boxes
MainExtent == [west |-> 95000000, east |-> 141000000,
               south |-> -11000000, north |-> 6000000]

Range(s) == {s[k] : k \in DOMAIN s}

(***************************************************************************)
(* generate_grid_boxes                                                     *)
(***************************************************************************)
\* float division a / b, rounded to the nearest unit (b # 0)
RECURSIVE FloatDiv(_, _)
FloatDiv(a, b) ==
    IF b < 0 THEN FloatDiv(-a, -b) ELSE (2 * a + b) \div (2 * b)

\* a variant of the box name that numbers both parts by the column
BoxName_column_twice(i, j) == "box_" \o ToString(i + 1) \o "_" \o ToString(i + 1)

\* f"box_{i+1}_{j+1}"
BoxName(i, j) == "box_" \o ToString(i + 1) \o "_" \o ToString(j + 1)

\* boxes[name] = value on an insertion-ordered dict
DictPut(boxes, name, value) ==
    IF \E k \in DOMAIN boxes : boxes[k].name = name
    THEN [k \in DOMAIN boxes |->
            IF boxes[k].name = name THEN [name |-> name, extent |-> value]
            ELSE boxes[k]]
    ELSE Append(boxes, [name |-> name, extent |-> value])

\* a variant of the loop body that steps the columns by lat_step
BoxExtent_lat_step_twice(ext, lon_step, lat_step, i, j) ==
    [west  |-> ext.west + i * lat_step,
     east  |-> ext.west + (i + 1) * lat_step,
     south |-> ext.south + j * lat_step,
     north |-> ext.south + (j + 1) * lat_step]

\* the body of the inner loop for one (i, j)
BoxExtent(ext, lon_step, lat_step, i, j) ==
    [west  |-> ext.west + i * lon_step,
     east  |-> ext.west + (i + 1) * lon_step,
     south |-> ext.south + j * lat_step,
     north |-> ext.south + (j + 1) * lat_step]

RECURSIVE InnerLoop(_, _, _, _, _, _, _)
InnerLoop(boxes, ext, lon_step, lat_step, y_div, i, j) ==
    IF j >= y_div THEN boxes
    ELSE InnerLoop(DictPut(boxes, BoxName(i, j),
                           BoxExtent(ext, lon_step, lat_step, i, j)),
                   ext, lon_step, lat_step, y_div, i, j + 1)

RECURSIVE OuterLoop(_, _, _, _, _, _, _)
OuterLoop(boxes, ext, lon_step, lat_step, x_div, y_div, i) ==
    IF i >= x_div THEN boxes
    ELSE OuterLoop(InnerLoop(boxes, ext, lon_step, lat_step, y_div, i, 0),
                   ext, lon_step, lat_step, x_div, y_div, i + 1)

\* generate_grid_boxes(total_extent, divisions): the dict as the sequence of
\* its items in insertion order, or ZeroDivisionError
generate_grid_boxes(ext, div) ==
    IF div.x = 0 \/ div.y = 0
    THEN [raised |-> TRUE, boxes |-> <<>>]
    ELSE [raised |-> FALSE,
          boxes |-> OuterLoop(<<>>, ext,
                              FloatDiv(ext.east - ext.west, div.x),
                              FloatDiv(ext.north - ext.south, div.y),
                              div.x, div.y, 0)]

(***************************************************************************)
(* Datasets (xarray.Dataset with the variable NO2 over the dims y, x)      *)
(***************************************************************************)
\* a dataset; conv counts the multiplications by 6.022e19 applied to NO2
Dataset(hasNO2, x, y, v, conv, units) ==
    [hasNO2 |-> hasNO2, x |-> x, y |-> y, v |-> v,
     conv |-> conv, units |-> units, err |-> ""]

\* the outcome of a library call that raised
Raised(msg) ==
    [hasNO2 |-> FALSE, x |-> <<>>, y |-> <<>>, v |-> <<>>,
     conv |-> 0, units |-> "", err |-> msg]

Index(d, dim) == IF dim = "x" THEN d.x ELSE d.y
OtherDim(dim) == IF dim = "x" THEN "y" ELSE "x"

\* pandas Index.is_monotonic_increasing / is_monotonic_decreasing / is_unique
IsMonotonicIncreasing(s) == \A k \in 1..(Len(s) - 1) : s[k] <= s[k + 1]
IsMonotonicDecreasing(s) == \A k \in 1..(Len(s) - 1) : s[k] >= s[k + 1]
IsUnique(s) == \A j, k \in DOMAIN s : s[j] = s[k] => j = k

\* the elements of a finite set of integers in ascending order
RECURSIVE SortedSeq(_)
SortedSeq(S) ==
    IF S = {} THEN <<>>
    ELSE LET m == CHOOSE a \in S : \A b \in S : a <= b
         IN <<m>> \o SortedSeq(S \ {m})

\* the position of the first occurrence of value a in s
FirstIndex(s, a) == CHOOSE k \in DOMAIN s : s[k] = a /\ \A j \in 1..(k - 1) : s[j] # a

\* np.round(c, 5): to the nearest multiple of Quantum, halves to even
Round5(c) ==
    LET q == c \div Quantum
        r == c % Quantum
    IN IF 2 * r < Quantum THEN q * Quantum
       ELSE IF 2 * r > Quantum THEN (q + 1) * Quantum
       ELSE IF q % 2 = 0 THEN q * Quantum ELSE (q + 1) * Quantum

\* ds.assign_coords(x=np.round(ds.x, 5), y=np.round(ds.y, 5))
RoundCoords(d) ==
    [d EXCEPT !.x = [k \in DOMAIN d.x |-> Round5(d.x[k])],
              !.y = [k \in DOMAIN d.y |-> Round5(d.y[k])]]

\* ds["NO2"].size
Size(d) == Len(d.x) * Len(d.y)

(***************************************************************************)
(* xr.combine_by_coords                                                    *)
(***************************************************************************)
\* reindex d along dim to the labels of joined (d's index is unique);
\* labels d lacks are filled with NaN
Reindex(d, dim, joined) ==
    IF dim = "x"
    THEN [d EXCEPT
            !.x = joined,
            !.v = [r \in DOMAIN d.v |->
                     [c \in DOMAIN joined |->
                        IF \E k \in DOMAIN d.x : d.x[k] = joined[c]
                        THEN d.v[r][FirstIndex(d.x, joined[c])]
                        ELSE NaN]]]
    ELSE [d EXCEPT
            !.y = joined,
            !.v = [r \in DOMAIN joined |->
                     IF \E k \in DOMAIN d.y : d.y[k] = joined[r]
                     THEN d.v[FirstIndex(d.y, joined[r])]
                     ELSE [c \in DOMAIN d.x |-> NaN]]]

\* align(*datasets, join="outer", exclude=[dim]): the datasets aligned along
\* the other dimension, or the error raised
Align(dss, dim) ==
    LET o == OtherDim(dim)
    IN IF \A k \in DOMAIN dss : Index(dss[k], o) = Index(dss[1], o)
       THEN [err |-> "", dss |-> dss]
       ELSE IF \E k \in DOMAIN dss : ~IsUnique(Index(dss[k], o))
       THEN [err |-> "ValueError: cannot reindex or align: duplicate index values",
             dss |-> <<>>]
       ELSE LET joined == SortedSeq(UNION {Range(Index(dss[k], o)) : k \in DOMAIN dss})
            IN [err |-> "",
                dss |-> [k \in DOMAIN dss |-> Reindex(dss[k], o, joined)]]

\* the aligned datasets joined end to end along dim
RECURSIVE JoinAlong(_, _)
JoinAlong(dss, dim) ==
    IF Len(dss) = 1 THEN dss[1]
    ELSE LET a == dss[1]
             b == JoinAlong(Tail(dss), dim)
         IN IF dim = "x"
            THEN [a EXCEPT !.x = a.x \o b.x,
                           !.v = [r \in DOMAIN a.v |-> a.v[r] \o b.v[r]]]
            ELSE [a EXCEPT !.y = a.y \o b.y, !.v = a.v \o b.v]

\* xr.concat(datasets, dim, join="outer")
Concat(dss, dim) ==
    IF \E k \in DOMAIN dss : dss[k].err # ""
    THEN dss[CHOOSE k \in DOMAIN dss :
               dss[k].err # "" /\ \A j \in 1..(k - 1) : dss[j].err = ""]
    ELSE LET al == Align(dss, dim)
         IN IF al.err # "" THEN Raised(al.err) ELSE JoinAlong(al.dss, dim)

\* _infer_concat_order_from_coords: the dimensions whose index is not the
\* same on every dataset
ConcatDims(dss, dims) ==
    SelectSeq(dims, LAMBDA dm :
        \E k \in DOMAIN dss : Index(dss[k], dm) # Index(dss[1], dm))

\* _infer_concat_order_from_coords: the error raised for the datasets, if any
InferError(dss, dims) ==
    LET cd == ConcatDims(dss, dims)
        bad(dm) ==
            \/ /\ ~(\A k \in DOMAIN dss : IsMonotonicIncreasing(Index(dss[k], dm)))
               /\ ~(\A k \in DOMAIN dss : IsMonotonicDecreasing(Index(dss[k], dm)))
            \/ \E k \in DOMAIN dss : Len(Index(dss[k], dm)) = 0
    IN IF \E n \in DOMAIN cd : bad(cd[n])
       THEN "ValueError: coordinate neither monotonically increasing nor decreasing, or of size zero"
       ELSE IF Len(dss) > 1 /\ cd = <<>>
       THEN "ValueError: could not find any dimension coordinates to order the datasets"
       ELSE ""

\* series.rank(method="dense", ascending=ascending) - 1 of dataset k
DenseRank(dss, dm, k) ==
    LET first(j) == Index(dss[j], dm)[1]
        ascending == \A j \in DOMAIN dss : IsMonotonicIncreasing(Index(dss[j], dm))
    IN Cardinality({first(j) : j \in {i \in DOMAIN dss :
                        IF ascending THEN first(i) < first(k)
                        ELSE first(i) > first(k)}})

TileId(dss, cd, k) == [n \in DOMAIN cd |-> DenseRank(dss, cd[n], k)]

\* combined_ids = dict(zip(tile_ids, datasets)): a later dataset replaces an
\* earlier one that has the same tile id
CombinedIds(dss, cd) ==
    [id \in {TileId(dss, cd, k) : k \in DOMAIN dss} |->
        dss[CHOOSE k \in DOMAIN dss :
              /\ TileId(dss, cd, k) = id
              /\ \A j \in DOMAIN dss : TileId(dss, cd, j) = id => j <= k]]

\* _combine_all_along_first_dim: the datasets that differ only in the first
\* component of their id, concatenated in the order of that component
CombineAlongFirstDim(cids, dm) ==
    [t \in {Tail(id) : id \in DOMAIN cids} |->
        LET hs == SortedSeq({Head(id) : id \in {i \in DOMAIN cids : Tail(i) = t}})
        IN Concat([n \in DOMAIN hs |-> cids[<<hs[n]>> \o t]], dm)]

\* _combine_nd
RECURSIVE CombineND(_, _)
CombineND(cids, cd) ==
    IF cd = <<>> THEN cids[<<>>]
    ELSE CombineND(CombineAlongFirstDim(cids, Head(cd)), Tail(cd))

\* xr.combine_by_coords(datasets), the datasets' dimensions listed as dims
combine_by_coords(dss, dims) ==
    LET e == InferError(dss, dims)
    IN IF e # "" THEN Raised(e)
       ELSE LET cd == ConcatDims(dss, dims)
                c == CombineND(CombinedIds(dss, cd), cd)
            IN IF c.err # "" THEN c
               ELSE IF \E n \in DOMAIN cd :
                          /\ ~IsMonotonicIncreasing(Index(c, cd[n]))
                          /\ ~IsMonotonicDecreasing(Index(c, cd[n]))
               THEN Raised("ValueError: resulting object does not have monotonic global indexes")
               ELSE c

(***************************************************************************)
(* Files of the nc/ directory                                              *)
(***************************************************************************)
\* main: date_str, as its year, month and day
DateParts == <<"2024", "01", "15">>
\* date_str.replace('-', '')
DateCompact == DateParts[1] \o DateParts[2] \o DateParts[3]

\* a variant that leaves the box name out of the file name
TileFile_without_name(box_name) == "nc/NO2_" \o DateCompact \o ".nc"

\* process_box: output_filename
TileFile(box_name) == "nc/NO2_" \o box_name \o "_" \o DateCompact \o ".nc"
\* merge_boxes: merged_filename
MergedFile == "nc/NO2_Indonesia_Daily_" \o DateCompact \o "_merged.nc"
\* process_and_save_data: final_filename
FinalFile(method) ==
    "nc/NO2_Indonesia_Daily_" \o DateCompact \o "_" \o method \o ".nc"

\* the method arguments main passes to process_and_save_data
Methods == <<"original", "linear_interp", "cubic_interp">>

EmptyDs == Raised("")
\* file contents: no file, a file left by an earlier run, an unreadable
\* file, a NetCDF file holding a dataset
NoFile == [kind |-> "none", data |-> EmptyDs]
StaleFile == [kind |-> "stale", data |-> EmptyDs]
CorruptFile == [kind |-> "corrupt", data |-> EmptyDs]
NcFile(d) == [kind |-> "nc", data |-> d]

\* os.path.exists(file)
Exists(files, name) == files[name].kind # "none"
\* if os.path.exists(name): os.remove(name)
Remove(files, name) == [files EXCEPT ![name] = NoFile]

(***************************************************************************)
(* merge_boxes                                                             *)
(***************************************************************************)
\* the loop body of merge_boxes: whether the file adds a dataset to datasets
Usable(files, name) ==
    /\ Exists(files, name)
    /\ files[name].kind = "nc"                    \* else open_dataset raises
    /\ RoundCoords(files[name].data).hasNO2
    /\ Size(RoundCoords(files[name].data)) > 0

\* merge_boxes: datasets after the loop
MergeInput(files, names) ==
    LET kept == SelectSeq(names, LAMBDA f : Usable(files, f))
    IN [k \in DOMAIN kept |-> RoundCoords(files[kept[k]].data)]

\* merge_boxes(date_str, box_files): what it returns ("None", the merged
\* file name, or "raise" for the exception of combine_by_coords) and the
\* directory it leaves
merge_boxes(files, names, dims) ==
    LET datasets == MergeInput(files, names)
    IN IF datasets = <<>>
       THEN [ret |-> "None", files |-> files, err |-> ""]
       ELSE LET merged_ds == combine_by_coords(datasets, dims)
            IN IF merged_ds.err # ""
               THEN [ret |-> "raise", files |-> files, err |-> merged_ds.err]
               ELSE [ret |-> MergedFile,
                     files |-> [Remove(files, MergedFile) EXCEPT
                                  ![MergedFile] = NcFile(merged_ds)],
                     err |-> ""]

(***************************************************************************)
(* Coordinate reconciliation (main, lines 150-151)                         *)
(***************************************************************************)
\* a variant that keeps the last occurrence of each distinct value
UniqueIndex_last(s) ==
    LET u == SortedSeq(Range(s))
    IN [n \in DOMAIN u |->
          CHOOSE k \in DOMAIN s : s[k] = u[n] /\ \A j \in DOMAIN s : s[j] = u[n] => j <= k]

\* a variant that drops a value only where it repeats the position before
UniqueIndex_adjacent(s) ==
    SortedSeq({k \in DOMAIN s : k = 1 \/ s[k] # s[k - 1]})

\* np.unique(s, return_index=True)[1]: for each distinct value in ascending
\* order, the position of its first occurrence
UniqueIndex(s) ==
    LET u == SortedSeq(Range(s))
    IN [n \in DOMAIN u |-> FirstIndex(s, u[n])]

\* a variant that selects the labels at index and leaves the data in place
Isel_labels_only(d, dim, index) ==
    IF dim = "x"
    THEN [d EXCEPT !.x = [n \in DOMAIN index |-> d.x[index[n]]],
                   !.v = [r \in DOMAIN d.v |->
                            [n \in DOMAIN index |-> d.v[r][n]]]]
    ELSE [d EXCEPT !.y = [n \in DOMAIN index |-> d.y[index[n]]],
                   !.v = [n \in DOMAIN index |-> d.v[n]]]

\* ds.isel(dim=index)
Isel(d, dim, index) ==
    IF dim = "x"
    THEN [d EXCEPT !.x = [n \in DOMAIN index |-> d.x[index[n]]],
                   !.v = [r \in DOMAIN d.v |->
                            [n \in DOMAIN index |-> d.v[r][index[n]]]]]
    ELSE [d EXCEPT !.y = [n \in DOMAIN index |-> d.y[index[n]]],
                   !.v = [n \in DOMAIN index |-> d.v[index[n]]]]

\* the positions of s in ascending order of value, ties in order of position
RECURSIVE ArgSortFrom(_, _)
ArgSortFrom(s, left) ==
    IF left = {} THEN <<>>
    ELSE LET m == CHOOSE k \in left :
                    \A j \in left : s[k] < s[j] \/ (s[k] = s[j] /\ k <= j)
         IN <<m>> \o ArgSortFrom(s, left \ {m})

\* ds.sortby(dim)
Sortby(d, dim) == Isel(d, dim, ArgSortFrom(Index(d, dim), DOMAIN Index(d, dim)))

\* a variant that sorts the axis and keeps its repeated values
ReconcileAxis_sort_only(d, dim) == Sortby(d, dim)

\* a variant that raises for an axis with fewer than two distinct values
ReconcileAxis_needs_two(d, dim) ==
    IF Cardinality(Range(Index(d, dim))) < 2
    THEN Raised("ValueError")
    ELSE Sortby(Isel(d, dim, UniqueIndex(Index(d, dim))), dim)

\* _, index = np.unique(ds[dim], return_index=True)
\* ds = ds.isel(dim=index).sortby(dim)
ReconcileAxis(d, dim) == Sortby(Isel(d, dim, UniqueIndex(Index(d, dim))), dim)

\* main, lines 150-151: the y axis, then the x axis
Reconcile(d) == ReconcileAxis(ReconcileAxis(d, "y"), "x")

(***************************************************************************)
(* process_and_save_data and create_netcdf_manually                        *)
(***************************************************************************)
\* a coordinate stored as 'f4': the nearest float32, whose spacing is about
\* 16 units between 128 and 256 degrees, 8 units between 64 and 128, 4
\* between 32 and 64, 2 between 16 and 32, and no more than a unit below
ToFloat32(c) ==
    LET a == IF c < 0 THEN -c ELSE c
        step == IF a >= 128000000 THEN 16
                ELSE IF a >= 64000000 THEN 8
                ELSE IF a >= 32000000 THEN 4
                ELSE IF a >= 16000000 THEN 2
                ELSE 1
        n == ((2 * a + step) \div (2 * step)) * step
    IN IF c < 0 THEN -n ELSE n

\* a variant that stores 0 where the dataset has a hole
create_netcdf_manually_zero_filled(d) ==
    NcFile([d EXCEPT !.x = [k \in DOMAIN d.x |-> ToFloat32(d.x[k])],
                     !.y = [k \in DOMAIN d.y |-> ToFloat32(d.y[k])],
                     !.v = [r \in DOMAIN d.v |->
                              [c \in DOMAIN d.v[r] |->
                                 IF d.v[r][c] = NaN THEN 0 ELSE d.v[r][c]]]])

\* create_netcdf_manually(filename, dataset, date_str): the file written
create_netcdf_manually(d) ==
    NcFile([d EXCEPT !.x = [k \in DOMAIN d.x |-> ToFloat32(d.x[k])],
                     !.y = [k \in DOMAIN d.y |-> ToFloat32(d.y[k])]])

\* a variant that stores NO2 as it is handed over
Convert_none(d) == d

\* create_netcdf_manually, lines 96-98: the dimensions of the file written
\* for dataset d
Dimensions(d) == [time |-> 1, y |-> Len(d.y), x |-> Len(d.x)]

\* the shape of var.values[np.newaxis, :, :] (line 106) for a grid with at
\* least one row
VarShape(d) == <<1, Len(d.v), Len(d.v[1])>>

\* process_and_save_data, lines 111-113: the unit conversion
Convert(d) ==
    IF d.hasNO2
    THEN [d EXCEPT !.conv = d.conv + 1, !.units = "molecules/cm^2"]
    ELSE d

\* a variant that leaves a file already present under the name as it is
process_and_save_data_keep_existing(files, d, method) ==
    IF Exists(files, FinalFile(method)) THEN files
    ELSE [files EXCEPT ![FinalFile(method)] = create_netcdf_manually(Convert(d))]

\* process_and_save_data(ds, date_str, method): the directory it leaves
process_and_save_data(files, d, method) ==
    [Remove(files, FinalFile(method)) EXCEPT
        ![FinalFile(method)] = create_netcdf_manually(Convert(d))]

(***************************************************************************)
(* scipy.interpolate.griddata over the canonical grid                      *)
(***************************************************************************)
Abs(n) == IF n < 0 THEN -n ELSE n
Sgn(n) == IF n < 0 THEN -1 ELSE IF n > 0 THEN 1 ELSE 0

\* the sign of a/b - c/d for a, c >= 0 and b, d > 0, without forming products
RECURSIVE CmpFrac(_, _, _, _)
CmpFrac(a, b, c, d) ==
    LET qa == a \div b
        qc == c \div d
        ra == a % b
        rc == c % d
    IN IF qa # qc THEN (IF qa < qc THEN -1 ELSE 1)
       ELSE IF ra = 0 /\ rc = 0 THEN 0
       ELSE IF ra = 0 THEN -1
       ELSE IF rc = 0 THEN 1
       ELSE -CmpFrac(b, ra, d, rc)

\* the sign of u1*u2 - w1*w2
CmpProd(u1, u2, w1, w2) ==
    LET sp == Sgn(u1) * Sgn(u2)
        sq == Sgn(w1) * Sgn(w2)
    IN IF sp # sq THEN (IF sp < sq THEN -1 ELSE 1)
       ELSE IF sp = 0 THEN 0
       ELSE sp * CmpFrac(Abs(u1), Abs(w1), Abs(w2), Abs(u2))

\* the orientation of the points a, b, c, each <<y, x>>: 0 when collinear
Orient(a, b, c) ==
    CmpProd(b[2] - a[2], c[1] - a[1], b[1] - a[1], c[2] - a[2])

\* a precedes b in the order of <<y, x>> pairs
Before(a, b) == a[1] < b[1] \/ (a[1] = b[1] /\ a[2] < b[2])

\* Qhull can triangulate P: three of its points are not collinear
CanTriangulate(P) ==
    \E a, b, c \in P : Before(a, b) /\ Before(b, c) /\ Orient(a, b, c) # 0

\* p lies in the closed triangle a, b, c
InTriangle(p, a, b, c) ==
    LET o1 == Orient(a, b, p)
        o2 == Orient(b, c, p)
        o3 == Orient(c, a, p)
    IN ~((o1 > 0 \/ o2 > 0 \/ o3 > 0) /\ (o1 < 0 \/ o2 < 0 \/ o3 < 0))

\* p lies in the convex hull of P
InHull(p, P) ==
    \E a, b, c \in P :
        /\ Before(a, b) /\ Before(b, c)
        /\ Orient(a, b, c) # 0
        /\ InTriangle(p, a, b, c)

\* main, lines 156-157: stacked.dropna(dim='points'), as <<y, x>> pairs
ValidPoints(d) ==
    {<<d.y[r], d.x[c]>> : <<r, c>> \in
        {rc \in (DOMAIN d.y) \X (DOMAIN d.x) : d.v[rc[1]][rc[2]] # NaN}}

\* a value estimated by an interpolator at a position that is no sample
Est == 0

\* a variant that estimates a value at every hole, in or out of the hull
Griddata_everywhere(d, method) ==
    LET P == ValidPoints(d)
    IN IF ~CanTriangulate(P) THEN Raised("QhullError")
       ELSE Dataset(TRUE, d.x, d.y,
                [r \in DOMAIN d.y |->
                   [c \in DOMAIN d.x |->
                      IF d.v[r][c] # NaN THEN d.v[r][c] ELSE Est]],
                d.conv, "")

\* a variant whose cubic method estimates nothing: values at the samples only
Griddata_cubic_keeps_holes(d, method) ==
    LET P == ValidPoints(d)
    IN IF ~CanTriangulate(P) THEN Raised("QhullError")
       ELSE Dataset(TRUE, d.x, d.y,
                [r \in DOMAIN d.y |->
                   [c \in DOMAIN d.x |->
                      IF d.v[r][c] # NaN THEN d.v[r][c]
                      ELSE IF method # "cubic" /\ InHull(<<d.y[r], d.x[c]>>, P) THEN Est
                      ELSE NaN]],
                d.conv, "")

\* a variant whose result has the two axes exchanged
Griddata_axes_exchanged(d, method) ==
    LET P == ValidPoints(d)
    IN IF ~CanTriangulate(P) THEN Raised("QhullError")
       ELSE Dataset(TRUE, d.y, d.x,
                [c \in DOMAIN d.x |->
                   [r \in DOMAIN d.y |->
                      IF d.v[r][c] # NaN THEN d.v[r][c]
                      ELSE IF InHull(<<d.y[r], d.x[c]>>, P) THEN Est
                      ELSE NaN]],
                d.conv, "")

\* griddata(valid_points, valid_values, (grid_y, grid_x), method) wrapped in
\* xr.Dataset: QhullError without three non-collinear samples; else the
\* sample values at the samples, an estimate elsewhere inside the hull of
\* the samples, and NaN (the fill_value) outside it, for either method; the
\* values are on the scale of the samples, and the new dataset has no attrs
Griddata(d, method) ==
    LET P == ValidPoints(d)
    IN IF ~CanTriangulate(P) THEN Raised("QhullError")
       ELSE Dataset(TRUE, d.x, d.y,
                [r \in DOMAIN d.y |->
                   [c \in DOMAIN d.x |->
                      IF d.v[r][c] # NaN THEN d.v[r][c]
                      ELSE IF InHull(<<d.y[r], d.x[c]>>, P) THEN Est
                      ELSE NaN]],
                d.conv, "")

(***************************************************************************)
(* The tile fetcher (the remote service behind process_box)                *)
(***************************************************************************)
\* what a download can hold: values everywhere, holes everywhere, no NO2
\* variable, an unreadable file
TileKinds == {"full", "nan", "absent", "corrupt"}

\* the file downloaded for the k-th tile: a grid over the corners of the
\* tile's extent, every value the tile's number
TileDownload(k, ext, kind) ==
    LET x == <<ext.west, ext.east>>
        y == <<ext.south, ext.north>>
    IN CASE kind = "full" ->
              NcFile(Dataset(TRUE, x, y, <<<<k, k>>, <<k, k>>>>, 0, ""))
         [] kind = "nan" ->
              NcFile(Dataset(TRUE, x, y, <<<<NaN, NaN>>, <<NaN, NaN>>>>, 0, ""))
         [] kind = "absent" ->
              NcFile(Dataset(FALSE, x, y, <<<<NaN, NaN>>, <<NaN, NaN>>>>, 0, ""))
         [] OTHER -> CorruptFile

\* what one call of the service can do: fail (process_box raises), or
\* deliver a download of one of the kinds
Replies == {"fail"} \cup TileKinds

\* a variant that keeps a NetCDF file already present under the tile's name
\* instead of downloading the tile again
process_box_cached(files, k, box, reply) ==
    LET output_filename == TileFile(box.name)
    IN IF files[output_filename].kind = "nc"
       THEN [raised |-> FALSE, ret |-> output_filename, files |-> files]
       ELSE IF reply = "fail"
       THEN [raised |-> TRUE, ret |-> "", files |-> Remove(files, output_filename)]
       ELSE [raised |-> FALSE, ret |-> output_filename,
             files |-> [Remove(files, output_filename) EXCEPT ![output_filename] =
                            TileDownload(k, box.extent, reply)]]

\* a variant without lines 38-39: a file already present under the tile's
\* name stays until a download replaces it
process_box_keeps_old(files, k, box, reply) ==
    LET output_filename == TileFile(box.name)
    IN IF reply = "fail"
       THEN [raised |-> TRUE, ret |-> "", files |-> files]
       ELSE [raised |-> FALSE, ret |-> output_filename,
             files |-> [files EXCEPT ![output_filename] =
                            TileDownload(k, box.extent, reply)]]

\* process_box(connection, start_date, end_date, box_name, spatial_extent),
\* for the k-th tile and the service's reply
process_box(files, k, box, reply) ==
    LET output_filename == TileFile(box.name)
        cleared == Remove(files, output_filename)
    IN IF reply = "fail"
       THEN [raised |-> TRUE, ret |-> "", files |-> cleared]
       ELSE [raised |-> FALSE, ret |-> output_filename,
             files |-> [cleared EXCEPT ![output_filename] =
                            TileDownload(k, box.extent, reply)]]

(***************************************************************************)
(* main                                                                    *)
(***************************************************************************)
\* main, line 129: the divisions handed to generate_grid_boxes (the model
\* runs the pipeline with XDiv columns)
MainDivisions == [x |-> XDiv, y |-> YDiv]

\* every file name the run can touch
FileNames ==
    {TileFile(b.name) :
        b \in Range(generate_grid_boxes(MainExtent, MainDivisions).boxes)}
    \cup {MergedFile} \cup {FinalFile(Methods[n]) : n \in DOMAIN Methods}

\* the function checks are idle while main runs
NoCall == [fn |-> "none"]

\* the start of main: the nc/ directory is empty, or holds the files of an
\* earlier run of the same day
PipeInit ==
    /\ pc = "start"
    /\ outcome = "running"
    /\ stages = <<>>
    /\ grid_boxes = <<>>
    /\ next_box = 1
    /\ box_files = <<>>
    /\ fs \in {[f \in FileNames |-> NoFile], [f \in FileNames |-> StaleFile]}
    /\ written = <<>>
    /\ fetch_log = <<>>
    /\ ds = EmptyDs
    /\ attempted = {}

Init ==
    /\ PipeInit
    /\ arg = NoCall
    /\ res = NoCall

\* main, line 129, for the divisions div: the exception of
\* generate_grid_boxes leaves main
PartitionWith(div) ==
    /\ pc = "start"
    /\ \E g \in {generate_grid_boxes(MainExtent, div)} :
          IF g.raised
          THEN /\ pc' = "crashed"
               /\ outcome' = "ZeroDivisionError"
               /\ UNCHANGED grid_boxes
          ELSE /\ pc' = "fetch"
               /\ grid_boxes' = g.boxes
               /\ UNCHANGED outcome
    /\ next_box' = 1
    /\ stages' = Append(stages, "Partition")
    /\ UNCHANGED <<box_files, fs, written, fetch_log, ds, attempted>>
    /\ UNCHANGED funVars

\* main, line 129
Partition == PartitionWith(MainDivisions)

\* a variant of the loop without the try/except: the exception of
\* process_box ends the run
FetchTile_uncaught ==
    /\ pc = "fetch"
    /\ next_box <= Len(grid_boxes)
    /\ \E reply \in Replies :
         LET box == grid_boxes[next_box]
             r == process_box(fs, next_box, box, reply)
         IN /\ fs' = r.files
            /\ fetch_log' = Append(fetch_log, <<box.name, ~r.raised>>)
            /\ IF r.raised
               THEN /\ pc' = "crashed"
                    /\ outcome' = "FetchError"
                    /\ UNCHANGED <<box_files, written>>
               ELSE /\ box_files' = Append(box_files, r.ret)
                    /\ written' = Append(written, r.ret)
                    /\ UNCHANGED <<pc, outcome>>
    /\ next_box' = next_box + 1
    /\ stages' = IF next_box = 1 THEN Append(stages, "FetchAll") ELSE stages
    /\ UNCHANGED <<grid_boxes, ds, attempted>>
    /\ UNCHANGED funVars

\* main, lines 132-136: one pass of the loop over grid_boxes.items()
FetchTile ==
    /\ pc = "fetch"
    /\ next_box <= Len(grid_boxes)
    /\ \E reply \in Replies :
         LET box == grid_boxes[next_box]
             r == process_box(fs, next_box, box, reply)
         IN /\ fs' = r.files
            /\ fetch_log' = Append(fetch_log, <<box.name, ~r.raised>>)
            /\ IF r.raised
               THEN UNCHANGED <<box_files, written>>
               ELSE /\ box_files' = Append(box_files, r.ret)
                    /\ written' = Append(written, r.ret)
    /\ next_box' = next_box + 1
    /\ stages' = IF next_box = 1 THEN Append(stages, "FetchAll") ELSE stages
    /\ UNCHANGED <<pc, outcome, grid_boxes, ds, attempted>>
    /\ UNCHANGED funVars

\* a variant of lines 138-139 without the return: main goes on to
\* merge_boxes, which finds nothing to merge
NoData_no_return ==
    /\ pc = "fetch"
    /\ next_box > Len(grid_boxes)
    /\ box_files = <<>>
    /\ pc' = "exit"
    /\ outcome' = "MergeFailed"
    /\ stages' = Append(stages, "Merge")
    /\ UNCHANGED <<grid_boxes, next_box, box_files, fs, written, fetch_log,
                   ds, attempted>>
    /\ UNCHANGED funVars

\* main, lines 138-139
NoData ==
    /\ pc = "fetch"
    /\ next_box > Len(grid_boxes)
    /\ box_files = <<>>
    /\ pc' = "exit"
    /\ outcome' = "EmptyAcquisition"
    /\ UNCHANGED <<stages, grid_boxes, next_box, box_files, fs, written, fetch_log,
                   ds, attempted>>
    /\ UNCHANGED funVars

\* the order in which the merged datasets list their dimensions
DimOrders == {<<"x", "y">>, <<"y", "x">>}

\* a variant of lines 141-143 without the return: main goes on when
\* merge_boxes returns None
Merge_no_return ==
    /\ pc = "fetch"
    /\ next_box > Len(grid_boxes)
    /\ box_files # <<>>
    /\ \E dims \in DimOrders :
         \E m \in {merge_boxes(fs, box_files, dims)} :
            IF m.ret = "raise"
            THEN /\ pc' = "crashed"
                 /\ outcome' = m.err
                 /\ UNCHANGED <<fs, written>>
            ELSE IF m.ret = "None"
            THEN /\ pc' = "merged"
                 /\ UNCHANGED <<outcome, fs, written>>
            ELSE /\ pc' = "merged"
                 /\ fs' = m.files
                 /\ written' = Append(written, m.ret)
                 /\ UNCHANGED outcome
    /\ stages' = Append(stages, "Merge")
    /\ UNCHANGED <<grid_boxes, next_box, box_files, fetch_log, ds, attempted>>
    /\ UNCHANGED funVars

\* main, lines 141-143
Merge ==
    /\ pc = "fetch"
    /\ next_box > Len(grid_boxes)
    /\ box_files # <<>>
    /\ \E dims \in DimOrders :
         \E m \in {merge_boxes(fs, box_files, dims)} :
            IF m.ret = "raise"
            THEN /\ pc' = "crashed"
                 /\ outcome' = m.err
                 /\ UNCHANGED <<fs, written>>
            ELSE IF m.ret = "None"
            THEN /\ pc' = "exit"
                 /\ outcome' = "MergeFailed"
                 /\ UNCHANGED <<fs, written>>
            ELSE /\ pc' = "merged"
                 /\ fs' = m.files
                 /\ written' = Append(written, m.ret)
                 /\ UNCHANGED outcome
    /\ stages' = Append(stages, "Merge")
    /\ UNCHANGED <<grid_boxes, next_box, box_files, fetch_log, ds, attempted>>
    /\ UNCHANGED funVars

\* main, lines 147-151
ReconcileCoordinates ==
    /\ pc = "merged"
    /\ ds' = Reconcile(fs[MergedFile].data)
    /\ pc' = "reconciled"
    /\ stages' = Append(stages, "ReconcileCoordinates")
    /\ UNCHANGED <<outcome, grid_boxes, next_box, box_files, fs, written,
                   fetch_log, attempted>>
    /\ UNCHANGED funVars

\* a variant of line 154 that hands ds itself to process_and_save_data,
\* which then converts NO2 in ds
SaveOriginal_no_copy ==
    /\ pc = "reconciled"
    /\ fs' = process_and_save_data(fs, ds, Methods[1])
    /\ ds' = Convert(ds)
    /\ written' = Append(written, FinalFile(Methods[1]))
    /\ pc' = "original"
    /\ stages' = Append(stages, "PersistOriginal")
    /\ UNCHANGED <<outcome, grid_boxes, next_box, box_files, fetch_log, attempted>>
    /\ UNCHANGED funVars

\* main, line 154: process_and_save_data converts NO2 in the copy it is
\* handed, ds keeps its variable
SaveOriginal ==
    /\ pc = "reconciled"
    /\ fs' = process_and_save_data(fs, ds, Methods[1])
    /\ written' = Append(written, FinalFile(Methods[1]))
    /\ pc' = "original"
    /\ stages' = Append(stages, "PersistOriginal")
    /\ UNCHANGED <<outcome, grid_boxes, next_box, box_files, fetch_log, ds,
                   attempted>>
    /\ UNCHANGED funVars

\* main, lines 156-164 (at = "original", n = 2, method "linear") and lines
\* 166-169 (at = "linear", n = 3, method "cubic")
Interpolate(at, n, method) ==
    /\ pc = at
    /\ attempted' = attempted \cup {method}
    /\ stages' = Append(stages, "Fill_" \o method)
    /\ \E g \in {Griddata(ds, method)} :
          IF g.err # ""
          THEN /\ pc' = "crashed"
               /\ outcome' = g.err
               /\ UNCHANGED <<fs, written>>
          ELSE /\ fs' = process_and_save_data(fs, g, Methods[n])
               /\ written' = Append(written, FinalFile(Methods[n]))
               /\ pc' = method
               /\ UNCHANGED outcome
    /\ UNCHANGED <<grid_boxes, next_box, box_files, fetch_log, ds>>
    /\ UNCHANGED funVars

\* a variant that runs the cubic fill right after the original is saved
InterpolateCubic_first == Interpolate("original", 3, "cubic")

\* main, lines 161-164
InterpolateLinear == Interpolate("original", 2, "linear")
\* main, lines 166-169
InterpolateCubic == Interpolate("linear", 3, "cubic")

\* main, lines 171-179
Finish ==
    /\ pc = "cubic"
    /\ pc' = "done"
    /\ outcome' = "Done"
    /\ stages' = Append(stages, "Done")
    /\ UNCHANGED <<grid_boxes, next_box, box_files, fs, written, fetch_log,
                   ds, attempted>>
    /\ UNCHANGED funVars

Next ==
    \/ Partition
    \/ FetchTile
    \/ NoData
    \/ Merge
    \/ ReconcileCoordinates
    \/ SaveOriginal
    \/ InterpolateLinear
    \/ InterpolateCubic
    \/ Finish

Spec == Init /\ [][Next]_vars

(***************************************************************************)
(* main with the divisions of line 129 drawn from a set that includes zero *)
(* and negative counts                                                     *)
(***************************************************************************)
ConfigDivisions == {[x |-> x_div, y |-> y_div] : x_div \in (-1)..1, y_div \in (-1)..YDiv}

ConfigInit ==
    /\ PipeInit
    /\ \E div \in ConfigDivisions : arg = [fn |-> "main", div |-> div]
    /\ res = NoCall

PartitionConfigured ==
    /\ arg.fn = "main"
    /\ PartitionWith(arg.div)

ConfigNext ==
    \/ PartitionConfigured
    \/ FetchTile
    \/ NoData
    \/ Merge
    \/ ReconcileCoordinates
    \/ SaveOriginal
    \/ InterpolateLinear
    \/ InterpolateCubic
    \/ Finish

SpecConfig == ConfigInit /\ [][ConfigNext]_vars

(***************************************************************************)
(* The functions applied on their own to inputs drawn from bounded sets    *)
(***************************************************************************)
\* main is not running
PipeIdle ==
    /\ pc = "idle"
    /\ outcome = "running"
    /\ stages = <<>>
    /\ grid_boxes = <<>>
    /\ next_box = 1
    /\ box_files = <<>>
    /\ fs = [f \in FileNames |-> NoFile]
    /\ written = <<>>
    /\ fetch_log = <<>>
    /\ ds = EmptyDs
    /\ attempted = {}

\* generate_grid_boxes on its own --------------------------------------------
PartExtents ==
    {MainExtent,
     [west |-> 0, east |-> 10, south |-> 0, north |-> 10],
     [west |-> -180000000, east |-> 180000000,
      south |-> -90000000, north |-> 90000000],
     [west |-> -7500000, east |-> -2500001, south |-> 1, north |-> 8]}

\* main, line 129: the divisions of the deployed run
DeployedDivisions == [x |-> 5, y |-> YDiv]

\* the division counts tried: every pair up to MaxDiv, zero and negative
\* counts included, and the deployed pair
PartDivisions ==
    {[x |-> x_div, y |-> y_div] : x_div, y_div \in (-1)..MaxDiv}
    \cup {DeployedDivisions}

PartitionInit ==
    /\ PipeIdle
    /\ \E ext \in PartExtents, div \in PartDivisions :
         arg = [fn |-> "generate_grid_boxes", ext |-> ext, div |-> div]
    /\ res = NoCall

CallPartition ==
    /\ arg.fn = "generate_grid_boxes"
    /\ res.fn = "none"
    /\ \E g \in {generate_grid_boxes(arg.ext, arg.div)} :
         res' = [fn |-> "generate_grid_boxes",
                 raised |-> g.raised, boxes |-> g.boxes]
    /\ UNCHANGED arg
    /\ UNCHANGED pipeVars

SpecPartition == PartitionInit /\ [][CallPartition]_vars

\* the reconciliation of lines 150-151 on its own ---------------------------
CoordValues == {10, 20, 30}
AxisSeqs == UNION {[1..n -> CoordValues] : n \in 1..MaxAxisLen}

\* a merged grid with the axes x and y whose value at row r, column c names
\* that cell
LabelledGrid(x, y) ==
    Dataset(TRUE, x, y,
            [r \in DOMAIN y |-> [c \in DOMAIN x |-> 10 * r + c]], 0, "")

ReconcileInit ==
    /\ PipeIdle
    /\ \E x, y \in AxisSeqs : arg = [fn |-> "reconcile", d |-> LabelledGrid(x, y)]
    /\ res = NoCall

CallReconcile ==
    /\ arg.fn = "reconcile"
    /\ res.fn = "none"
    /\ res' = [fn |-> "reconcile", d |-> Reconcile(arg.d)]
    /\ UNCHANGED arg
    /\ UNCHANGED pipeVars

SpecReconcile == ReconcileInit /\ [][CallReconcile]_vars

\* two adjacent tiles through merge_boxes and the reconciliation -------------
\* the seam of the two tiles, and the far edges of the two tiles
SeamAt == MainExtent.west + FloatDiv(MainExtent.east - MainExtent.west, 2)
SeamLow == MainExtent.west
SeamHigh == MainExtent.east

\* the two tiles' files: tile 1 ends at SeamAt + a, tile 2 starts at
\* SeamAt + b along the axis; they have the same other axis
SeamFiles(axis, a, b) ==
    LET first == <<SeamLow, SeamAt + a>>
        second == <<SeamAt + b, SeamHigh>>
        other == <<MainExtent.south, MainExtent.north>>
        tile(k, along) ==
            IF axis = "x"
            THEN Dataset(TRUE, along, other, <<<<k, k>>, <<k, k>>>>, 0, "")
            ELSE Dataset(TRUE, other, along, <<<<k, k>>, <<k, k>>>>, 0, "")
    IN [f \in {"tile_1", "tile_2", MergedFile} |->
          IF f = "tile_1" THEN NcFile(tile(1, first))
          ELSE IF f = "tile_2" THEN NcFile(tile(2, second))
          ELSE NoFile]

SeamInit ==
    /\ PipeIdle
    /\ \E axis \in {"x", "y"}, a, b \in 0..MaxNoise :
         arg = [fn |-> "seam", axis |-> axis, a |-> a, b |-> b]
    /\ res = NoCall

\* merge_boxes on the two files, then lines 147-151
CallSeam ==
    /\ arg.fn = "seam"
    /\ res.fn = "none"
    /\ \E dims \in DimOrders :
         \E m \in {merge_boxes(SeamFiles(arg.axis, arg.a, arg.b),
                               <<"tile_1", "tile_2">>, dims)} :
            res' = IF m.ret = MergedFile
                   THEN [fn |-> "seam", ret |-> m.ret,
                         d |-> Reconcile(m.files[MergedFile].data)]
                   ELSE [fn |-> "seam", ret |-> m.ret, d |-> EmptyDs]
    /\ UNCHANGED arg
    /\ UNCHANGED pipeVars

SpecSeam == SeamInit /\ [][CallSeam]_vars

\* process_and_save_data on its own -----------------------------------------
\* canonical axes: strictly increasing, of 5-decimal coordinates
PersistXs ==
    {s \in UNION {[1..n -> {95000000, 104200010, 104200020, 141000000}] : n \in 1..2} :
        \A k \in 1..(Len(s) - 1) : s[k] < s[k + 1]}
PersistYs == {<<-11000000>>, <<6000000>>, <<-11000000, 6000000>>}

\* the grids handed to process_and_save_data: every cell a value or a hole
PersistGrids ==
    UNION {{Dataset(TRUE, x, y, v, 0, "") :
               v \in [DOMAIN y -> [DOMAIN x -> {NaN, 7}]]} :
           <<x, y>> \in PersistXs \X PersistYs}

\* a grid written by an earlier run of the same day
OldGrid ==
    Dataset(TRUE, <<95000000, 118000000, 141000000>>, <<-11000000, 6000000>>,
            <<<<9, 9, 9>>, <<9, 9, 9>>>>, 1, "molecules/cm^2")

\* the nc/ directory before the call: empty, or holding the file of an
\* earlier run under the name about to be written
PersistInit ==
    /\ pc = "idle"
    /\ outcome = "running"
    /\ stages = <<>>
    /\ grid_boxes = <<>>
    /\ next_box = 1
    /\ box_files = <<>>
    /\ fs \in {[f \in FileNames |-> NoFile], [f \in FileNames |-> NcFile(OldGrid)]}
    /\ written = <<>>
    /\ fetch_log = <<>>
    /\ ds = EmptyDs
    /\ attempted = {}
    /\ \E d \in PersistGrids, n \in DOMAIN Methods :
         arg = [fn |-> "process_and_save_data", d |-> d, method |-> Methods[n]]
    /\ res = NoCall

CallPersist ==
    /\ arg.fn = "process_and_save_data"
    /\ res.fn = "none"
    /\ fs' = process_and_save_data(fs, arg.d, arg.method)
    /\ res' = [fn |-> "process_and_save_data", ret |-> FinalFile(arg.method)]
    /\ UNCHANGED arg
    /\ UNCHANGED <<pc, outcome, stages, grid_boxes, next_box, box_files, written,
                   fetch_log, ds, attempted>>

SpecPersist == PersistInit /\ [][CallPersist]_vars

(***************************************************************************)
(* main as a function of the nc/ directory it starts from, the service's   *)
(* reply for each tile and the dimension order of the downloads; two runs  *)
(* of it on the same replies                                               *)
(***************************************************************************)
\* main, lines 131-136: the loop from the k-th box on
RECURSIVE FetchAll(_, _, _, _, _)
FetchAll(boxes, replies, files, names, k) ==
    IF k > Len(boxes) THEN [files |-> files, box_files |-> names]
    ELSE LET r == process_box(files, k, boxes[k], replies[k])
         IN FetchAll(boxes, replies, r.files,
                     IF r.raised THEN names ELSE Append(names, r.ret), k + 1)

\* what a run leaves
RunResult(how, boxes, names, files, made, canonical) ==
    [outcome |-> how, grid_boxes |-> boxes, box_files |-> names,
     files |-> files, written |-> made, ds |-> canonical]

\* main, lines 147-179, from the merged file on
RunFromMerged(boxes, names, files) ==
    LET canonical == Reconcile(files[MergedFile].data)
        made1 == Append(names, MergedFile)
        files1 == process_and_save_data(files, canonical, Methods[1])
        made2 == Append(made1, FinalFile(Methods[1]))
        linear == Griddata(canonical, "linear")
        files2 == process_and_save_data(files1, linear, Methods[2])
        made3 == Append(made2, FinalFile(Methods[2]))
        cubic == Griddata(canonical, "cubic")
        files3 == process_and_save_data(files2, cubic, Methods[3])
        made4 == Append(made3, FinalFile(Methods[3]))
    IN IF linear.err # ""
       THEN RunResult(linear.err, boxes, names, files1, made2, canonical)
       ELSE IF cubic.err # ""
       THEN RunResult(cubic.err, boxes, names, files2, made3, canonical)
       ELSE RunResult("Done", boxes, names, files3, made4, canonical)

\* main, lines 129-179
RunMain(files, replies, dims) ==
    LET boxes == generate_grid_boxes(MainExtent, MainDivisions).boxes
        fetched == FetchAll(boxes, replies, files, <<>>, 1)
        m == merge_boxes(fetched.files, fetched.box_files, dims)
    IN IF fetched.box_files = <<>>
       THEN RunResult("EmptyAcquisition", boxes, <<>>, fetched.files, <<>>, EmptyDs)
       ELSE IF m.ret = "raise"
       THEN RunResult(m.err, boxes, fetched.box_files, fetched.files,
                      fetched.box_files, EmptyDs)
       ELSE IF m.ret = "None"
       THEN RunResult("MergeFailed", boxes, fetched.box_files, fetched.files,
                      fetched.box_files, EmptyDs)
       ELSE RunFromMerged(boxes, fetched.box_files, m.files)

\* the nc/ directories a run can start from: empty, files of an earlier run
\* that are no NetCDF datasets, datasets of an earlier run
StartDirs ==
    [empty |-> [f \in FileNames |-> NoFile],
     stale |-> [f \in FileNames |-> StaleFile],
     old   |-> [f \in FileNames |-> NcFile(OldGrid)]]

\* the replies tried on two runs: a failure, values, holes only, an unusable
\* download (merge_boxes discards an unreadable file and one without NO2
\* alike)
RerunReplies == {"fail", "full", "nan", "corrupt"}

RerunInit ==
    /\ PipeIdle
    /\ \E replies \in [1..(XDiv * YDiv) -> RerunReplies], dims \in DimOrders,
          second \in {"stale", "old", "rerun"} :
         arg = [fn |-> "main", replies |-> replies, dims |-> dims, second |-> second]
    /\ res = NoCall

\* a run from the empty directory, and a second run on the same replies
\* from a directory with earlier files or from the one the first run left
CallRerun ==
    /\ arg.fn = "main"
    /\ res.fn = "none"
    /\ \E first \in {RunMain(StartDirs.empty, arg.replies, arg.dims)} :
         res' = [fn |-> "main", first |-> first,
                 second |-> RunMain(IF arg.second = "rerun" THEN first.files
                                    ELSE StartDirs[arg.second],
                                    arg.replies, arg.dims)]
    /\ UNCHANGED arg
    /\ UNCHANGED pipeVars

SpecRerun == RerunInit /\ [][CallRerun]_vars

(***************************************************************************)
(* File names as functions of the date: the name process_and_save_data     *)
(* writes and the names the visualization (03-visualize-no2.py) and the    *)
(* regional aggregation (06-region-average.py) open                        *)
(***************************************************************************)
Digits == <<"0", "1", "2", "3", "4", "5", "6", "7", "8", "9">>

\* a variant of the directives that writes a number without leading zeros
RECURSIVE Padded_not(_, _)
Padded_not(v, n) ==
    IF v < 10 THEN <<Digits[v + 1]>>
    ELSE Append(Padded_not(v \div 10, n), Digits[(v % 10) + 1])

\* the strftime directives %Y, %m, %d: the number v as n characters, zero
\* padded
RECURSIVE Padded(_, _)
Padded(v, n) ==
    IF n = 0 THEN <<>>
    ELSE Append(Padded(v \div 10, n - 1), Digits[(v % 10) + 1])

\* main, line 128: datetime.now().strftime("%Y-%m-%d"), as characters
StrftimeDashed(date) ==
    Padded(date.year, 4) \o <<"-">> \o Padded(date.month, 2) \o <<"-">>
    \o Padded(date.day, 2)

\* 03-visualize-no2.py, line 315: datetime.now().strftime('%Y%m%d'); also
\* the YYYYMMDD argument of 06-region-average.py
StrftimeCompact(date) ==
    Padded(date.year, 4) \o Padded(date.month, 2) \o Padded(date.day, 2)

\* date_str.replace('-', '')
RemoveDashes(s) == SelectSeq(s, LAMBDA ch : ch # "-")

\* characters as a string
RECURSIVE Join(_)
Join(s) == IF s = <<>> THEN "" ELSE Head(s) \o Join(Tail(s))

\* process_and_save_data, lines 115-116: final_filename for date_str
FinalFileOn(date_str, method) ==
    LET base_filename == "NO2_Indonesia_Daily_" \o Join(RemoveDashes(date_str))
    IN "nc" \o "/" \o base_filename \o "_" \o method \o ".nc"

\* 03-visualize-no2.py, line 316: netcdf_file
VisualizeFile(today) ==
    "nc/NO2_Indonesia_Daily_" \o Join(today) \o "_linear_interp.nc"

\* 06-region-average.py, line 24: nc_file
RegionFile(date_str) ==
    "nc/NO2_Indonesia_Daily_" \o Join(date_str) \o "_linear_interp.nc"

\* the day of the modelled run of main (DateParts), and the days tried
RunDate == [year |-> 2024, month |-> 1, day |-> 15]
Dates ==
    {[year |-> y, month |-> m, day |-> d] :
        y \in {2024, 2025}, m \in {1, 11, 12}, d \in {1, 2, 11, 15, 21}}

NamesInit ==
    /\ PipeIdle
    /\ \E da, db \in Dates, na, nb \in DOMAIN Methods :
         arg = [fn |-> "names",
                a |-> [date |-> da, method |-> Methods[na]],
                b |-> [date |-> db, method |-> Methods[nb]]]
    /\ res = NoCall

\* the names written for a and b, the names of the three variants of a's
\* day, and the names the two consumers open for a's day
CallNames ==
    /\ arg.fn = "names"
    /\ res.fn = "none"
    /\ res' = [fn |-> "names",
               a |-> FinalFileOn(StrftimeDashed(arg.a.date), arg.a.method),
               b |-> FinalFileOn(StrftimeDashed(arg.b.date), arg.b.method),
               variants |-> [n \in DOMAIN Methods |->
                               FinalFileOn(StrftimeDashed(arg.a.date), Methods[n])],
               visualize |-> VisualizeFile(StrftimeCompact(arg.a.date)),
               region |-> RegionFile(StrftimeCompact(arg.a.date))]
    /\ UNCHANGED arg
    /\ UNCHANGED pipeVars

SpecNames == NamesInit /\ [][CallNames]_vars

(***************************************************************************)
(* Properties of the run of main                                           *)
(***************************************************************************)
\* the fetch loop is over
LoopDone == pc \notin {"start", "fetch"} \/ (pc = "fetch" /\ next_box > Len(grid_boxes))

\* the tiles whose fetch failed / succeeded, by position in grid_boxes
FailedTiles == {k \in DOMAIN fetch_log : ~fetch_log[k][2]}
FetchedTiles == {k \in DOMAIN fetch_log : fetch_log[k][2]}

\* the merged file and the three final files
Artifacts == {MergedFile} \cup {FinalFile(Methods[n]) : n \in DOMAIN Methods}

\* every tile was tried and every fetch failed
EveryFetchFailed ==
    /\ grid_boxes # <<>>
    /\ LoopDone
    /\ FailedTiles = DOMAIN grid_boxes

\* C1: if the fetch of every tile fails, the run can only end with the
\* EmptyAcquisition outcome, it never enters Merge or a later stage, and it
\* creates no file: the merged file and the original, linear and cubic files
\* are absent or are the ones an earlier run left.
C1_EmptyAcquisition ==
    EveryFetchFailed =>
        /\ pc \in {"fetch", "exit"}
        /\ pc = "exit" => outcome = "EmptyAcquisition"
        /\ pc = "fetch" => outcome = "running"
        /\ "Merge" \notin Range(stages)
        /\ written = <<>>
        /\ \A f \in Artifacts : fs[f].kind \in {"none", "stale"}

\* a run in which every fetch failed has ended
C1_Witness ==
    /\ EveryFetchFailed
    /\ Len(fetch_log) = XDiv * YDiv
    /\ pc = "exit"
    /\ outcome = "EmptyAcquisition"

\* C2: the failure of a tile's fetch does not end the loop: once the loop is
\* over every tile has been tried, whatever failed; the files handed to
\* merge_boxes are exactly those of the tiles whose fetch succeeded, in the
\* order of the tiles; and a run that is past the loop with a fetched tile
\* has entered Merge.
C2_FetchFailureIsolated ==
    /\ pc \notin {"start", "fetch"} => Len(fetch_log) = Len(grid_boxes)
    /\ pc = "fetch" => Len(fetch_log) = next_box - 1
    /\ \A k \in FailedTiles : TileFile(fetch_log[k][1]) \notin Range(box_files)
    /\ \A k \in FetchedTiles : TileFile(fetch_log[k][1]) \in Range(box_files)
    /\ Len(box_files) = Cardinality(FetchedTiles)
    /\ \A k \in DOMAIN fetch_log : fetch_log[k][1] = grid_boxes[k].name
    /\ (pc \notin {"start", "fetch"} /\ FetchedTiles # {}) => "Merge" \in Range(stages)

\* a tile's fetch failed, a later tile was fetched, and the run entered Merge
C2_Witness ==
    /\ \E k \in FailedTiles : \E l \in FetchedTiles : k < l
    /\ Len(fetch_log) = Len(grid_boxes)
    /\ "Merge" \in Range(stages)
    /\ pc = "merged"

\* the original file has been written and ds is the canonical grid
OriginalSaved == "PersistOriginal" \in Range(stages)

\* the canonical grid lacks three non-collinear samples that are not holes
InsufficientSamples == ~CanTriangulate(ValidPoints(ds))

\* C3: (as the specification states it) when griddata fails for a fill
\* method, the run is not aborted: it goes on past that method, to the other
\* method and to Done.
C3_FillFailureDoesNotAbort ==
    \A method \in attempted :
        Griddata(ds, method).err # "" => pc \in {"linear", "cubic", "done"}

\* C4: (as the specification states it) when the canonical grid has fewer
\* than three non-collinear samples, no interpolation is attempted and the
\* run does not stop on an error.
C4_NoFillWithoutSamples ==
    (OriginalSaved /\ InsufficientSamples) => (attempted = {} /\ pc # "crashed")

\* the dataset of a written artifact holds a value that is not a hole
HoldsValue(f) ==
    /\ fs[f].kind = "nc"
    /\ \E r \in DOMAIN fs[f].data.v : \E c \in DOMAIN fs[f].data.v[r] :
          fs[f].data.v[r][c] # NaN

\* C5: (as the specification states it) every original, linear or cubic file
\* the run has written holds at least one value that is not a hole.
C5_ArtifactsHoldAValue ==
    \A n \in DOMAIN Methods :
        FinalFile(Methods[n]) \in Range(written) => HoldsValue(FinalFile(Methods[n]))

(***************************************************************************)
(* Properties of the canonical grid                                        *)
(***************************************************************************)
\* ds is the canonical grid (merged and reconciled)
Canonical == "ReconcileCoordinates" \in Range(stages)

\* the tile grids merge_boxes merged, in the order the tiles were processed
Tiles == MergeInput(fs, box_files)

\* tile grid t has a cell at the position (x, y), and the cell's content
Covers(t, x, y) == x \in Range(t.x) /\ y \in Range(t.y)
TileValue(t, x, y) == t.v[FirstIndex(t.y, y)][FirstIndex(t.x, x)]

\* the content of the canonical grid at the position (x, y)
GridValue(x, y) == ds.v[FirstIndex(ds.y, y)][FirstIndex(ds.x, x)]

\* the tiles of T that have a cell at (x, y) / a value at (x, y)
Covering(T, x, y) == {k \in DOMAIN T : Covers(T[k], x, y)}
Defining(T, x, y) == {k \in Covering(T, x, y) : TileValue(T[k], x, y) # NaN}

\* the positions of the tiles of T
TileXs(T) == UNION {Range(T[k].x) : k \in DOMAIN T}
TileYs(T) == UNION {Range(T[k].y) : k \in DOMAIN T}

Earliest(S) == CHOOSE a \in S : \A b \in S : a <= b
Latest(S) == CHOOSE a \in S : \A b \in S : a >= b

\* tile a starts furthest west and furthest south of the tiles S of T
FirstOnBothAxes(T, a, S) ==
    \A b \in S : T[a].x[1] <= T[b].x[1] /\ T[a].y[1] <= T[b].y[1]

Conflict(T, x, y) ==
    \E a, b \in Defining(T, x, y) : TileValue(T[a], x, y) # TileValue(T[b], x, y)

\* merge_boxes ended with the exception of combine_by_coords
MergeRaised == pc = "crashed" /\ stages[Len(stages)] = "Merge"

\* C7: (as the specification states it) when two tiles handed to the merge
\* report different values at the same rounded coordinate, the merge does
\* not fail, and the canonical grid has exactly one cell for the coordinate,
\* holding one of the tiles' values.
C7_ConflictKeepsOneValue ==
    "Merge" \in Range(stages) =>
        \A T \in {Tiles} : \A x \in TileXs(T), y \in TileYs(T) :
            Conflict(T, x, y) =>
               /\ ~MergeRaised
               /\ pc # "exit"
               /\ Canonical =>
                    /\ Cardinality({c \in DOMAIN ds.x : ds.x[c] = x}) = 1
                    /\ Cardinality({r \in DOMAIN ds.y : ds.y[r] = y}) = 1
                    /\ \E a \in Defining(T, x, y) :
                          GridValue(x, y) = TileValue(T[a], x, y)

\* the files handed to merge_boxes that it keeps / discards, by position
UsableInputs == {k \in DOMAIN box_files : Usable(fs, box_files[k])}
UnusableInputs == DOMAIN box_files \ UsableInputs

\* merge_boxes has returned or raised
MergeCalled == "Merge" \in Range(stages)

\* C14: (as the specification states it) merge_boxes discards the files that
\* are missing, unreadable, without NO2 or of zero size and merges the
\* others: when a file is unusable and another is usable, the merge does not
\* fail, it returns the merged file built from the usable ones.
C14_UnusableTileDoesNotFailMerge ==
    (MergeCalled /\ UnusableInputs # {} /\ UsableInputs # {})
    => /\ ~MergeRaised
       /\ pc # "exit"
       /\ fs[MergedFile].kind = "nc"

\* C15: when merge_boxes is called and none of the files handed to it is
\* usable, it returns None and writes no merged file, and main ends with
\* the MergeFailed outcome without entering a later stage and without
\* writing an original, linear or cubic file.
C15_NoUsableTilesAborts ==
    (MergeCalled /\ UsableInputs = {})
    => /\ pc = "exit"
       /\ outcome = "MergeFailed"
       /\ stages[Len(stages)] = "Merge"
       /\ \A f \in Artifacts : f \notin Range(written) /\ fs[f].kind \in {"none", "stale"}
       /\ attempted = {}

\* every tile was fetched, none of the files was usable, and main has ended
C15_Witness ==
    /\ MergeCalled
    /\ Len(box_files) = Len(grid_boxes)
    /\ UsableInputs = {}
    /\ \E k \in DOMAIN box_files : fs[box_files[k]].kind = "corrupt"
    /\ \E k \in DOMAIN box_files : fs[box_files[k]].kind = "nc"
    /\ pc = "exit"
    /\ outcome = "MergeFailed"

\* the linear / cubic artifact has been written, and its dataset
LinearWritten == FinalFile(Methods[2]) \in Range(written)
CubicWritten == FinalFile(Methods[3]) \in Range(written)
LinearStored == fs[FinalFile(Methods[2])].data
CubicStored == fs[FinalFile(Methods[3])].data

\* p lies in the convex hull of P, a set with three non-collinear points:
\* p is on the inner side of every line through two points of P that has
\* all of P on one side
OnHullSide(p, P) ==
    \A a, b \in P :
        (a # b /\ \A q \in P : Orient(a, b, q) >= 0) => Orient(a, b, p) >= 0

\* C17: in the linear artifact a grid position holds a value exactly when it
\* lies in the (closed) convex hull of the canonical grid's samples: every
\* position inside the hull holds a value, every position outside is a hole.
C17_LinearFillsTheHull ==
    LinearWritten =>
        \A P \in {ValidPoints(ds)} :
            \A r \in DOMAIN ds.y, c \in DOMAIN ds.x :
                (LinearStored.v[r][c] # NaN) <=> OnHullSide(<<ds.y[r], ds.x[c]>>, P)

\* the linear artifact holds a value at a hole of the canonical grid inside
\* the hull and a hole at a position outside the hull
C17_Witness ==
    /\ LinearWritten
    /\ \E r \in DOMAIN ds.y, c \in DOMAIN ds.x :
          /\ ds.v[r][c] = NaN
          /\ OnHullSide(<<ds.y[r], ds.x[c]>>, ValidPoints(ds))
          /\ LinearStored.v[r][c] # NaN
    /\ \E r \in DOMAIN ds.y, c \in DOMAIN ds.x :
          /\ ~OnHullSide(<<ds.y[r], ds.x[c]>>, ValidPoints(ds))
          /\ LinearStored.v[r][c] = NaN

SeamAxis == Index(res.d, arg.axis)

\* the two tiles' edge coordinates differ by less than the rounding precision
BelowPrecision == Abs(arg.a - arg.b) < Quantum

\* the two tiles' edge coordinates round to the same 5-decimal value
RoundTogether == Round5(SeamAt + arg.a) = Round5(SeamAt + arg.b)

\* C8: (as the specification states it) for two adjacent tiles whose
\* shared-edge coordinates differ by less than the rounding precision, the
\* merge and the reconciliation give one coordinate for the shared edge: the
\* axis across the seam has the two outer edges and one seam coordinate.
C8_NoiseBelowPrecisionMerges ==
    (res.fn = "seam" /\ BelowPrecision)
    => /\ res.ret = MergedFile
       /\ Len(SeamAxis) = 3

\* what the rounding does give: for two adjacent tiles whose shared-edge
\* coordinates round to the same 5-decimal value, the merge succeeds and the
\* reconciled axis across the seam has the two outer edges and that one
\* rounded seam coordinate between them; the other axis is the tiles' common
\* axis.
SameRoundingMerges ==
    (res.fn = "seam" /\ RoundTogether)
    => /\ res.ret = MergedFile
       /\ SeamAxis = <<SeamLow, Round5(SeamAt + arg.a), SeamHigh>>
       /\ Index(res.d, OtherDim(arg.axis)) = <<MainExtent.south, MainExtent.north>>

\* two tiles whose edge coordinates differ and round together were merged
\* into a grid with one seam coordinate
SameRoundingMerged ==
    /\ res.fn = "seam"
    /\ arg.a # arg.b
    /\ RoundTogether
    /\ res.ret = MergedFile
    /\ Len(SeamAxis) = 3

StrictlyIncreasing(s) == \A k \in 1..(Len(s) - 1) : s[k] < s[k + 1]

\* C9: whatever the merged grid's axes (repeated values, values out of
\* order), the reconciled x and y axes are strictly increasing, so no value
\* is repeated.
C9_ReconciledAxesStrictlyIncreasing ==
    res.fn = "reconcile"
    => /\ StrictlyIncreasing(res.d.x)
       /\ StrictlyIncreasing(res.d.y)
       /\ IsUnique(res.d.x)
       /\ IsUnique(res.d.y)

\* a grid whose x axis is out of order with a repeated value and whose y
\* axis has a repeated value was reconciled
C9_Witness ==
    /\ res.fn = "reconcile"
    /\ ~IsMonotonicIncreasing(arg.d.x)
    /\ ~IsUnique(arg.d.x)
    /\ ~IsUnique(arg.d.y)
    /\ StrictlyIncreasing(res.d.x)
    /\ StrictlyIncreasing(res.d.y)

\* the names of the boxes returned
BoxNames == {res.boxes[k].name : k \in DOMAIN res.boxes}

\* C10: for every extent and positive division counts x_div and y_div,
\* generate_grid_boxes returns x_div * y_div boxes with pairwise distinct
\* names, exactly one named box_{i+1}_{j+1} for each i < x_div, j < y_div.
C10_OneBoxPerIndexPair ==
    (res.fn = "generate_grid_boxes" /\ arg.div.x > 0 /\ arg.div.y > 0)
    => /\ ~res.raised
       /\ Len(res.boxes) = arg.div.x * arg.div.y
       /\ Cardinality(BoxNames) = Len(res.boxes)
       /\ \A i \in 0..(arg.div.x - 1), j \in 0..(arg.div.y - 1) :
             Cardinality({k \in DOMAIN res.boxes :
                 res.boxes[k].name
                    = "box_" \o ToString(i + 1) \o "_" \o ToString(j + 1)}) = 1

\* a partition into three columns and two rows was returned
C10_Witness ==
    /\ res.fn = "generate_grid_boxes"
    /\ arg.div = [x |-> 3, y |-> 2]
    /\ Len(res.boxes) = 6
    /\ "box_3_2" \in BoxNames

\* generate_grid_boxes returned for positive division counts
Partitioned ==
    /\ res.fn = "generate_grid_boxes"
    /\ arg.div.x > 0
    /\ arg.div.y > 0
    /\ ~res.raised

\* the extent of the box returned for column i, row j (both from 0)
BoxAt(i, j) ==
    (CHOOSE b \in Range(res.boxes) :
        b.name = "box_" \o ToString(i + 1) \o "_" \o ToString(j + 1)).extent

Columns == 0..(arg.div.x - 1)
Rows == 0..(arg.div.y - 1)

\* neighbouring boxes share their common edge
EdgesShared ==
    /\ \A i \in Columns \ {arg.div.x - 1}, j \in Rows :
          BoxAt(i, j).east = BoxAt(i + 1, j).west
    /\ \A i \in Columns, j \in Rows \ {arg.div.y - 1} :
          BoxAt(i, j).north = BoxAt(i, j + 1).south

\* the outermost edges are the bounds of the extent
OuterEdgesOnBounds ==
    \A i \in Columns, j \in Rows :
        /\ BoxAt(0, j).west = arg.ext.west
        /\ BoxAt(arg.div.x - 1, j).east = arg.ext.east
        /\ BoxAt(i, 0).south = arg.ext.south
        /\ BoxAt(i, arg.div.y - 1).north = arg.ext.north

\* two boxes share interior area
Overlap(a, b) ==
    /\ a.west < b.east /\ b.west < a.east
    /\ a.south < b.north /\ b.south < a.north

NoOverlap ==
    \A k, l \in DOMAIN res.boxes :
        k # l => ~Overlap(res.boxes[k].extent, res.boxes[l].extent)

\* C11: (as the specification states it) for every extent and positive
\* division counts the boxes cover the extent with no gap and no overlap:
\* neighbours share their common edge, the outermost edges are the bounds of
\* the extent, and no two boxes share interior area.
C11_BoxesTileTheExtent ==
    Partitioned => (EdgesShared /\ OuterEdgesOnBounds /\ NoOverlap)

\* what the loop does give: neighbours share their common edge, no two
\* boxes share interior area, and the west and south outer edges are the
\* bounds of the extent
BoxesAbutFromSouthWest ==
    Partitioned =>
        /\ EdgesShared
        /\ NoOverlap
        /\ \A i \in Columns, j \in Rows :
              BoxAt(0, j).west = arg.ext.west /\ BoxAt(i, 0).south = arg.ext.south

InvalidDivisions == arg.fn = "main" /\ (arg.div.x <= 0 \/ arg.div.y <= 0)

\* C13: (as the specification states it) divisions with a zero or negative
\* count are rejected before any work starts: generate_grid_boxes returns no
\* tile set, so main never reaches the fetch loop or anything after it, and
\* no tile is fetched.
C13_InvalidDivisionsRejected ==
    (InvalidDivisions /\ pc # "start")
    => /\ pc = "crashed"
       /\ stages = <<"Partition">>
       /\ fetch_log = <<>>

(***************************************************************************)
(* Properties of the persisted artifacts                                   *)
(***************************************************************************)
\* the original artifact has been written by process_and_save_data
OriginalPersisted == res.fn = "process_and_save_data" /\ arg.method = Methods[1]

\* the dataset stored in the artifact just written
Stored == fs[FinalFile(arg.method)].data

\* the artifact has the grid's shape, and a hole exactly where the grid has
SameShapeAndHoles(a, d) ==
    /\ Len(a.x) = Len(d.x)
    /\ Len(a.y) = Len(d.y)
    /\ DOMAIN a.v = DOMAIN d.v
    /\ \A r \in DOMAIN d.v :
          /\ DOMAIN a.v[r] = DOMAIN d.v[r]
          /\ \A c \in DOMAIN d.v[r] : (a.v[r][c] = NaN) <=> (d.v[r][c] = NaN)

\* C16: (as the specification states it) the original artifact has a hole
\* exactly where the canonical grid has one, and the grid's shape and axes
\* are unchanged.
C16_OriginalKeepsHolesAndAxes ==
    OriginalPersisted =>
        /\ SameShapeAndHoles(Stored, arg.d)
        /\ Stored.x = arg.d.x
        /\ Stored.y = arg.d.y

\* C16: (amended) the original artifact has a hole exactly where the
\* canonical grid has one and has the grid's shape; its axes are the grid's
\* axes stored in single precision, each coordinate within 4e-6 degree of
\* the grid's (8e-6 from 128 degrees on), in the same order.
C16_OriginalKeepsHoles ==
    OriginalPersisted =>
        /\ SameShapeAndHoles(Stored, arg.d)
        /\ \A k \in DOMAIN arg.d.x :
              Abs(Stored.x[k] - arg.d.x[k]) <= (IF Abs(arg.d.x[k]) >= 128000000 THEN 8 ELSE 4)
        /\ \A k \in DOMAIN arg.d.y : Abs(Stored.y[k] - arg.d.y[k]) <= 4
        /\ IsMonotonicIncreasing(Stored.x)
        /\ IsMonotonicIncreasing(Stored.y)

\* a grid with a hole, a value and a coordinate that single precision
\* cannot hold was persisted as the original artifact
C16_Witness ==
    /\ OriginalPersisted
    /\ \E r \in DOMAIN arg.d.v : \E c \in DOMAIN arg.d.v[r] :
          arg.d.v[r][c] = NaN /\ Stored.v[r][c] = NaN
    /\ \E r \in DOMAIN arg.d.v : \E c \in DOMAIN arg.d.v[r] :
          arg.d.v[r][c] # NaN /\ Stored.v[r][c] # NaN
    /\ Stored.x # arg.d.x

(***************************************************************************)
(* Properties of two runs on the same replies                              *)
(***************************************************************************)
\* the file a run wrote under the name f, or no file when it wrote none
Produced(run, f) == IF f \in Range(run.written) THEN run.files[f] ELSE NoFile

\* C19: two runs of main on the same replies of the service (and the same
\* dimension order of the downloads), whatever files the nc/ directory held
\* when each began, end the same way with the same tile names and extents,
\* the same canonical axes and values, and the same original and linear
\* artifacts.
C19_RerunGivesTheSameOutputs ==
    res.fn = "main" =>
        /\ res.first.outcome = res.second.outcome
        /\ res.first.grid_boxes = res.second.grid_boxes
        /\ res.first.box_files = res.second.box_files
        /\ res.first.ds = res.second.ds
        /\ \A n \in 1..2 :
              Produced(res.first, FinalFile(Methods[n]))
                 = Produced(res.second, FinalFile(Methods[n]))

\* a run that reached Done was repeated from the directory it left, and
\* another from a directory holding an earlier run's datasets
C19_Witness ==
    /\ res.fn = "main"
    /\ arg.second \in {"rerun", "old"}
    /\ res.first.outcome = "Done"
    /\ res.second.outcome = "Done"
    /\ \E k \in DOMAIN arg.replies : arg.replies[k] = "fail"
    /\ Produced(res.second, FinalFile(Methods[2])).kind = "nc"
    /\ Produced(res.second, FinalFile(Methods[2])) # NcFile(OldGrid)

\* C20: every file a run writes (a tile's file, the merged file, the
\* original, linear and cubic artifacts) replaces the file of that name the
\* directory held before: it holds exactly what the same run writes into an
\* empty directory, and nothing of the earlier file.
C20_WritesReplaceOldFiles ==
    res.fn = "main" =>
        /\ res.second.written = res.first.written
        /\ \A f \in Range(res.second.written) :
              /\ res.second.files[f] = res.first.files[f]
              /\ res.second.files[f].kind \in {"nc", "corrupt"}
              /\ res.second.files[f] # NcFile(OldGrid)

\* a run that began in a directory holding a dataset under every name wrote
\* tile files, the merged file and the three artifacts
C20_Witness ==
    /\ res.fn = "main"
    /\ arg.second = "old"
    /\ res.second.outcome = "Done"
    /\ res.second.box_files # <<>>
    /\ Artifacts \subseteq Range(res.second.written)
    /\ \A f \in Range(res.second.written) : res.second.files[f] # NcFile(OldGrid)


(***************************************************************************)
(* Properties of the artifacts of a run of main                            *)
(***************************************************************************)
\* the dataset stored under the name of the n-th method
StoredAs(n) == fs[FinalFile(Methods[n])].data

\* C21: every original, linear or cubic artifact the run has written stores
\* NO2 multiplied by the scale factor exactly once, with the units (and
\* long name) of the converted quantity.
C21_EveryArtifactConverted ==
    \A n \in DOMAIN Methods :
        FinalFile(Methods[n]) \in Range(written) =>
            /\ fs[FinalFile(Methods[n])].kind = "nc"
            /\ StoredAs(n).hasNO2
            /\ StoredAs(n).conv = 1
            /\ StoredAs(n).units = "molecules/cm^2"

\* the run is done and each of the three artifacts holds a converted value
C21_Witness ==
    /\ pc = "done"
    /\ \A n \in DOMAIN Methods :
          /\ FinalFile(Methods[n]) \in Range(written)
          /\ HoldsValue(FinalFile(Methods[n]))
          /\ StoredAs(n).conv = 1


(***************************************************************************)
(* Properties of the file names                                            *)
(***************************************************************************)
\* C22: the name written is an injective function of the date and the
\* method (two different pairs never give the same name), the three variants
\* of a day have three different names, the name of the linear variant is
\* the name the visualization and the regional aggregation open for that
\* day, and for the day of the modelled run the name is the one main writes.
C22_NamesInjectiveAndShared ==
    res.fn = "names" =>
        /\ res.a = res.b => arg.a = arg.b
        /\ \A m, n \in DOMAIN Methods : res.variants[m] = res.variants[n] => m = n
        /\ res.variants[2] = res.visualize
        /\ res.variants[2] = res.region
        /\ arg.a.date = RunDate => res.a = FinalFile(arg.a.method)

\* the names of the linear variant of 11 January and of 1 November differ,
\* and the first is the one both consumers open
C22_Witness ==
    /\ res.fn = "names"
    /\ arg.a.method = Methods[2]
    /\ arg.b.method = Methods[2]
    /\ arg.a.date.year = arg.b.date.year
    /\ arg.a.date.month = 1 /\ arg.a.date.day = 11
    /\ arg.b.date.month = 11 /\ arg.b.date.day = 1
    /\ res.a # res.b
    /\ res.a = res.visualize
    /\ res.a = res.region


(***************************************************************************)
(* Properties of the order of the stages of main                           *)
(***************************************************************************)
\* the stages of a run that reaches Done, in order
StageOrder ==
    <<"Partition", "FetchAll", "Merge", "ReconcileCoordinates",
      "PersistOriginal", "Fill_linear", "Fill_cubic", "Done">>

\* the merged file and the three artifacts in the order main writes them
WriteOrder ==
    <<MergedFile, FinalFile(Methods[1]), FinalFile(Methods[2]), FinalFile(Methods[3])>>

IsPrefix(s, t) == Len(s) <= Len(t) /\ \A k \in DOMAIN s : s[k] = t[k]

\* C23: the stages a run has entered are an initial part of Partition,
\* FetchAll, Merge, ReconcileCoordinates, the original, the linear fill, the
\* cubic fill, Done; Merge is entered only when every tile has been tried;
\* the files written are the tile files followed by an initial part of the
\* merged file, the original, the linear and the cubic artifact; an artifact
\* is written only after Merge and ReconcileCoordinates; and at Done all
\* three artifacts are written.
C23_StagesInOrder ==
    /\ IsPrefix(stages, StageOrder)
    /\ "Merge" \in Range(stages) =>
          /\ Len(fetch_log) = Len(grid_boxes)
          /\ next_box > Len(grid_boxes)
    /\ Len(written) >= Len(box_files)
    /\ SubSeq(written, 1, Len(box_files)) = box_files
    /\ IsPrefix(SubSeq(written, Len(box_files) + 1, Len(written)), WriteOrder)
    /\ \A n \in DOMAIN Methods :
          FinalFile(Methods[n]) \in Range(written) =>
              /\ "Merge" \in Range(stages)
              /\ "ReconcileCoordinates" \in Range(stages)
              /\ fs[MergedFile].kind = "nc"
    /\ pc = "done" =>
          /\ stages = StageOrder
          /\ SubSeq(written, Len(box_files) + 1, Len(written)) = WriteOrder

\* a run in which a tile's fetch failed has gone through every stage
C23_Witness ==
    /\ pc = "done"
    /\ stages = StageOrder
    /\ FailedTiles # {}
    /\ Len(written) = Len(box_files) + 4


(***************************************************************************)
(* Properties of the reconciliation applied on its own                     *)
(***************************************************************************)
\* position k is the first occurrence of its value in s
IsFirstOccurrence(s, k) == \A j \in 1..(k - 1) : s[j] # s[k]

\* C24: the reconciled grid has one row for each distinct y value and one
\* column for each distinct x value of the merged grid, and the cell at a
\* reconciled row and column is the merged grid's cell at the first
\* occurrence of the row's y value and the first occurrence of the column's
\* x value: the rows and columns of later duplicates are discarded.
C24_FirstOccurrenceKept ==
    res.fn = "reconcile" =>
        /\ IsUnique(res.d.y) /\ Range(res.d.y) = Range(arg.d.y)
        /\ IsUnique(res.d.x) /\ Range(res.d.x) = Range(arg.d.x)
        /\ \A r \in DOMAIN res.d.y, c \in DOMAIN res.d.x :
              \E i \in DOMAIN arg.d.y, j \in DOMAIN arg.d.x :
                 /\ arg.d.y[i] = res.d.y[r] /\ IsFirstOccurrence(arg.d.y, i)
                 /\ arg.d.x[j] = res.d.x[c] /\ IsFirstOccurrence(arg.d.x, j)
                 /\ res.d.v[r][c] = arg.d.v[i][j]

\* a value occurs twice on each axis of the merged grid, first at a position
\* that is not the first of the axis, and the reconciled grid holds the cell
\* of the first occurrences, not that of the later ones
C24_Witness ==
    /\ res.fn = "reconcile"
    /\ \E i, k \in DOMAIN arg.d.y, j, l \in DOMAIN arg.d.x :
          /\ 1 < i /\ i < k /\ arg.d.y[i] = arg.d.y[k] /\ IsFirstOccurrence(arg.d.y, i)
          /\ 1 < j /\ j < l /\ arg.d.x[j] = arg.d.x[l] /\ IsFirstOccurrence(arg.d.x, j)
          /\ \E r \in DOMAIN res.d.y, c \in DOMAIN res.d.x :
                /\ res.d.y[r] = arg.d.y[i]
                /\ res.d.x[c] = arg.d.x[j]
                /\ res.d.v[r][c] = arg.d.v[i][j]
                /\ res.d.v[r][c] # arg.d.v[k][l]


\* every position of s holds the same value
SingleValued(s) == \A j, k \in DOMAIN s : s[j] = s[k]

\* C25: reconciling the x axis and then the y axis gives the grid (axes and
\* data) that main's order, y then x, gives; and when an axis of the merged
\* grid has a single distinct value the reconciliation ends without an
\* error, with one row (one column) for that axis.
C25_AxesReconcileInEitherOrder ==
    res.fn = "reconcile" =>
        /\ res.d = ReconcileAxis(ReconcileAxis(arg.d, "x"), "y")
        /\ res.d.err = ""
        /\ SingleValued(arg.d.y) => (Len(res.d.y) = 1 /\ Len(res.d.v) = 1)
        /\ SingleValued(arg.d.x) =>
              (Len(res.d.x) = 1 /\ \A r \in DOMAIN res.d.v : Len(res.d.v[r]) = 1)

\* the merged grid repeats one y value and has an unsorted x axis with a
\* repeated value; the reconciled grid has one row and two columns
C25_Witness ==
    /\ res.fn = "reconcile"
    /\ Len(arg.d.y) > 1
    /\ SingleValued(arg.d.y)
    /\ Len(arg.d.x) = 3
    /\ arg.d.x[1] > arg.d.x[2]
    /\ arg.d.x[3] = arg.d.x[1]
    /\ Len(res.d.y) = 1
    /\ Len(res.d.x) = 2
    /\ res.d.err = ""


(***************************************************************************)
(* Properties of the fetch loop                                            *)
(***************************************************************************)
\* the files a successful fetch of the k-th tile can leave
DownloadsOf(k) == {TileDownload(k, grid_boxes[k].extent, kind) : kind \in TileKinds}

\* C26: no tile is fetched twice (a failed fetch is not tried again) and,
\* when the loop is over, every tile has been fetched once; two different
\* tiles have different file names, so the list of fetched files names no
\* file twice; and no fetch writes another tile's file: the file of a
\* fetched tile holds that tile's download and the file of a tile whose
\* fetch failed is absent, whatever was fetched afterwards.
C26_EachTileOnceInItsOwnFile ==
    /\ \A j, k \in DOMAIN fetch_log : fetch_log[j][1] = fetch_log[k][1] => j = k
    /\ LoopDone => {fetch_log[k][1] : k \in DOMAIN fetch_log} =
                   {grid_boxes[k].name : k \in DOMAIN grid_boxes}
    /\ \A j, k \in DOMAIN grid_boxes :
          TileFile(grid_boxes[j].name) = TileFile(grid_boxes[k].name) => j = k
    /\ IsUnique(box_files)
    /\ \A k \in FetchedTiles : fs[TileFile(grid_boxes[k].name)] \in DownloadsOf(k)
    /\ \A k \in FailedTiles : fs[TileFile(grid_boxes[k].name)] = NoFile

\* the loop is over; the first tile's fetch failed and was not tried again,
\* and the other tiles were fetched into files of their own
C26_Witness ==
    /\ LoopDone
    /\ Len(fetch_log) = XDiv * YDiv
    /\ 1 \in FailedTiles
    /\ FetchedTiles = DOMAIN grid_boxes \ {1}
    /\ Cardinality(Range(box_files)) = XDiv * YDiv - 1
    /\ \A k \in FetchedTiles : fs[TileFile(grid_boxes[k].name)].kind = "nc"


(***************************************************************************)
(* Properties of the canonical grid across the persistence                 *)
(***************************************************************************)
\* C27: once the original artifact is written, and through the later
\* stages, ds is still the reconciled merged grid with NO2 unconverted and
\* without the converted units; the samples handed to griddata are its
\* values; and no artifact stores NO2 converted twice: each artifact holds,
\* at every sample position, the sample's value converted once.
C27_PersistingLeavesCanonicalGrid ==
    OriginalSaved =>
        /\ ds = Reconcile(fs[MergedFile].data)
        /\ ds.conv = 0
        /\ ds.units = ""
        /\ \A n \in DOMAIN Methods :
              FinalFile(Methods[n]) \in Range(written) =>
                  /\ StoredAs(n).conv < 2
                  /\ \A r \in DOMAIN ds.y, c \in DOMAIN ds.x :
                        ds.v[r][c] # NaN => StoredAs(n).v[r][c] = ds.v[r][c]

\* the three artifacts are written with converted values and ds still holds
\* an unconverted value
C27_Witness ==
    /\ pc = "done"
    /\ ds.conv = 0
    /\ \E r \in DOMAIN ds.y, c \in DOMAIN ds.x : ds.v[r][c] # NaN
    /\ \A n \in DOMAIN Methods :
          FinalFile(Methods[n]) \in Range(written) /\ StoredAs(n).conv = 1


(***************************************************************************)
(* Properties of a run that starts among the files of an earlier run       *)
(***************************************************************************)
\* the tiles of the run whose reply is a download, by position
Delivered == {k \in DOMAIN arg.replies : arg.replies[k] # "fail"}

\* the file name of the k-th tile of a run
TileFileOf(run, k) == TileFile(run.grid_boxes[k].name)

\* C28: in a run that starts in a directory holding a dataset of an earlier
\* run under every name, the list handed to merge_boxes names exactly the
\* files of the tiles fetched in this run, in the order of the tiles; the
\* file of a tile whose fetch failed has been deleted; the file of a fetched
\* tile is this run's download; and none of the datasets merged is the
\* earlier run's.
C28_OnlyThisRunsTilesAreMerged ==
    res.fn = "main" =>
        \A run \in {res.second} :
            /\ Range(run.box_files) = {TileFileOf(run, k) : k \in Delivered}
            /\ Len(run.box_files) = Cardinality(Delivered)
            /\ \A i, j \in DOMAIN run.box_files :
                  i < j => \E k, l \in Delivered :
                              /\ k < l
                              /\ run.box_files[i] = TileFileOf(run, k)
                              /\ run.box_files[j] = TileFileOf(run, l)
            /\ \A k \in DOMAIN arg.replies \ Delivered :
                  run.files[TileFileOf(run, k)] = NoFile
            /\ \A k \in Delivered :
                  run.files[TileFileOf(run, k)] =
                      TileDownload(k, run.grid_boxes[k].extent, arg.replies[k])
            /\ \A M \in {MergeInput(run.files, run.box_files)} :
                  \A n \in DOMAIN M : M[n] # RoundCoords(OldGrid)

\* the run began among the datasets of an earlier run, one tile's fetch
\* failed and its old file is gone, and the run merged the other tiles
C28_Witness ==
    /\ res.fn = "main"
    /\ arg.second = "old"
    /\ \E k \in DOMAIN arg.replies :
          /\ arg.replies[k] = "fail"
          /\ res.second.files[TileFileOf(res.second, k)] = NoFile
    /\ Cardinality(Delivered) >= 2
    /\ MergedFile \in Range(res.second.written)
    /\ res.second.outcome = "Done"


(***************************************************************************)
(* Properties of the axes of the artifacts                                 *)
(***************************************************************************)
\* C29: every artifact the run has written has the dimensions time = 1,
\* y = the number of y values and x = the number of x values of the
\* canonical grid, with NO2 of that shape; and the x and y axes stored in
\* the linear and the cubic artifact are those stored in the original
\* artifact.
C29_ArtifactsShareTheAxes ==
    \A n \in DOMAIN Methods :
        FinalFile(Methods[n]) \in Range(written) =>
            /\ Dimensions(StoredAs(n)) = [time |-> 1, y |-> Len(ds.y), x |-> Len(ds.x)]
            /\ VarShape(StoredAs(n)) = <<1, Len(ds.y), Len(ds.x)>>
            /\ \A r \in DOMAIN StoredAs(n).v : Len(StoredAs(n).v[r]) = Len(ds.x)
            /\ FinalFile(Methods[1]) \in Range(written)
            /\ StoredAs(n).x = StoredAs(1).x
            /\ StoredAs(n).y = StoredAs(1).y

\* the three artifacts of a run whose canonical grid has more rows than
\* columns are written
C29_Witness ==
    /\ pc = "done"
    /\ Len(ds.y) > Len(ds.x)
    /\ Len(ds.x) >= 2
    /\ \A n \in DOMAIN Methods :
          /\ FinalFile(Methods[n]) \in Range(written)
          /\ StoredAs(n).x = StoredAs(1).x
          /\ Len(StoredAs(n).y) = Len(ds.y)


\* C30: each axis of the reconciled grid holds every distinct value of the
\* merged grid's axis once and no other value, and reconciling the
\* reconciled grid again returns it as it is, axes and data.
C30_ReconcileKeepsValuesAndIsIdempotent ==
    res.fn = "reconcile" =>
        /\ \A dim \in {"x", "y"} :
              /\ \A a \in Range(Index(arg.d, dim)) :
                    Cardinality({k \in DOMAIN Index(res.d, dim) :
                                    Index(res.d, dim)[k] = a}) = 1
              /\ \A k \in DOMAIN Index(res.d, dim) :
                    Index(res.d, dim)[k] \in Range(Index(arg.d, dim))
        /\ Reconcile(res.d) = res.d

\* the merged grid has, on each axis, a value that returns after another
\* one; the reconciled grid is smaller and reconciling it again changes
\* nothing
C30_Witness ==
    /\ res.fn = "reconcile"
    /\ \A dim \in {"x", "y"} :
          /\ Len(Index(arg.d, dim)) = 3
          /\ Index(arg.d, dim)[1] = Index(arg.d, dim)[3]
          /\ Index(arg.d, dim)[1] > Index(arg.d, dim)[2]
          /\ Len(Index(res.d, dim)) = 2
    /\ res.d # arg.d
    /\ Reconcile(res.d) = res.d

====
